---- MODULE Spec2Model ----
(***************************************************************************)
(* The file representation retrieval flow of box_ai_agents_toolkit         *)
(* (box_api_file_representation.py): box_file_text_extract and the helpers *)
(* it calls.  One invocation is a process that steps from one collaborator *)
(* call (metadata probe, GET, sleep) to the next.  The content service and *)
(* the HTTP transport are the environment: every response they can give is *)
(* a nondeterministic choice of the step that calls them.                  *)
(* SpecConc interleaves two invocations and SpecLive adds the fairness of  *)
(* calls that return.  box_folder_items_list (box_api_folder.py,           *)
(* SpecFolder), box_hub_list, box_hub_item_add and box_hub_item_remove     *)
(* (box_api_hubs.py, SpecHub) and box_file_tag_add and box_file_tag_remove *)
(* (box_api_file.py, SpecTag for one caller, SpecTagConc for two) are      *)
(* modelled the same way, each on variables of its own.                    *)
(*                                                                         *)
(* Python values:                                                          *)
(*   Optional[T]   a sequence of length 0 (None) or 1 (Some(v))            *)
(*   str (URLs)    a sequence of one-character strings                     *)
(*   str (texts)   a TLA+ string                                           *)
(*   bytes         a sequence of 0..255                                    *)
(*   dict          a record                                                *)
(*   Enum member   its member name; .value is a separate mapping           *)
(***************************************************************************)
EXTENDS Integers, Sequences, FiniteSets, TLC

VARIABLES
    pc,             \* position of each invocation
    kind,           \* representation_type of the running _process_file_representation
    is_recursive,   \* is_recursive of the running _process_file_representation
    rep,            \* `representation` of _process_file_representation
    result,         \* Optional: the mapping box_file_text_extract returned
    exc,            \* Optional: the exception that left box_file_text_extract
    calls,          \* history: the collaborator and helper calls made, in order
    attempts,       \* history: the finished _process_file_representation calls
    folder_pc,            \* position of the box_folder_items_list invocation
    folder_is_recursive,  \* its is_recursive argument
    folder_stack,         \* the frames of box_folder_items_list, outermost first
    folder_return,        \* Optional: the mapping the outermost call returned
    folder_calls,         \* history: the get_folder_items calls and their answers
    hub_pc,         \* position of the invocation of a function of box_api_hubs.py
    hub_fn,         \* the function invoked
    hub_args,       \* its arguments
    hub_items,      \* the items of the hub, as the service holds them
    hub_marker,     \* `marker` of box_hub_list
    hub_result,     \* `result` of box_hub_list
    hub_return,     \* Optional: the mapping the function returned
    hub_exc,        \* Optional: the exception that left the function
    hub_calls,      \* history: the requests made to the hubs and hub-items API
    file_tags,      \* the tags of the file, as the service holds them
    tag_pc,         \* position of each invocation of box_file_tag_add / _remove
    tag_fn,         \* the function each invocation runs
    tag_arg,        \* its `tag` argument
    tags,           \* its local `tags`
    tag_return,     \* Optional: the mapping it returned
    tag_log         \* history: the calls made and the requests answered, in order

reprVars == <<pc, kind, is_recursive, rep, result, exc, calls, attempts>>
folderVars ==
    <<folder_pc, folder_is_recursive, folder_stack, folder_return, folder_calls>>

hubVars ==
    <<hub_pc, hub_fn, hub_args, hub_items, hub_marker, hub_result, hub_return,
      hub_exc, hub_calls>>

tagVars == <<file_tags, tag_pc, tag_fn, tag_arg, tags, tag_return, tag_log>>

vars == <<reprVars, folderVars, hubVars, tagVars>>

\* what the steps of one function leave alone: the state of the others
notReprVars == <<folderVars, hubVars, tagVars>>
notFolderVars == <<reprVars, hubVars, tagVars>>
notHubVars == <<reprVars, folderVars, tagVars>>
notTagVars == <<reprVars, folderVars, hubVars>>

\* The callers of box_file_tag_add and box_file_tag_remove on one file;
\* SpecTag runs the first one alone, call after call.
TagProcs == {"t1", "t2"}
TagSeqProcs == {"t1"}

None == <<>>
Some(v) == <<v>>

\* The invocations of box_file_text_extract; Spec runs the first one alone.
Procs == {"i1", "i2"}
SeqProcs == {"i1"}

(***************************************************************************)
(* Enumerations                                                            *)
(***************************************************************************)
MARKDOWN == "MARKDOWN"
EXTRACTED_TEXT == "EXTRACTED_TEXT"
RepresentationType == {MARKDOWN, EXTRACTED_TEXT}

RepresentationTypeValue(t) ==
    IF t = MARKDOWN THEN "markdown" ELSE "extracted_text"

FileRepresentationStatusMembers ==
    {"NONE", "PENDING", "SUCCESS", "ERROR", "IMPOSSIBLE", "UNKNOWN"}

StatusValue(s) ==
    CASE s = "NONE" -> "none"
      [] s = "PENDING" -> "pending"
      [] s = "SUCCESS" -> "success"
      [] s = "ERROR" -> "error"
      [] s = "IMPOSSIBLE" -> "impossible"
      [] s = "UNKNOWN" -> "unknown"

\* FileRepresentationStatus(state): the member whose value is the string, or ValueError
\* (None here) when no member has that value.
FileRepresentationStatus(state) ==
    IF \E s \in FileRepresentationStatusMembers : StatusValue(s) = state
    THEN Some(CHOOSE s \in FileRepresentationStatusMembers : StatusValue(s) = state)
    ELSE None

(***************************************************************************)
(* Strings of the fixtures                                                 *)
(***************************************************************************)
AssetPath == <<"{","+","a","s","s","e","t","_","p","a","t","h","}">>

\* "https://service/rep/{+asset_path}/content"
FixtureTemplate ==
    <<"h","t","t","p","s",":","/","/","s","e","r","v","i","c","e","/","r","e","p","/",
      "{","+","a","s","s","e","t","_","p","a","t","h","}","/","c","o","n","t","e","n","t">>

\* "https://service/rep/content"
FixtureResolved ==
    <<"h","t","t","p","s",":","/","/","s","e","r","v","i","c","e","/","r","e","p","/",
      "c","o","n","t","e","n","t">>

\* "https://service/rep//content"
FixtureDoubleSlash ==
    <<"h","t","t","p","s",":","/","/","s","e","r","v","i","c","e","/","r","e","p","/",
      "/","c","o","n","t","e","n","t">>

\* "https://service/rep/text"
PlainTemplate ==
    <<"h","t","t","p","s",":","/","/","s","e","r","v","i","c","e","/","r","e","p","/",
      "t","e","x","t">>

\* "https://service/info"
InfoUrl ==
    <<"h","t","t","p","s",":","/","/","s","e","r","v","i","c","e","/","i","n","f","o">>

\* str.replace(old, new) for a non-empty old: every non-overlapping occurrence,
\* left to right, in one pass.
RECURSIVE StrReplace(_, _, _)
StrReplace(s, old, new) ==
    IF Len(s) < Len(old) THEN s
    ELSE IF SubSeq(s, 1, Len(old)) = old
         THEN new \o StrReplace(SubSeq(s, Len(old) + 1, Len(s)), old, new)
         ELSE <<Head(s)>> \o StrReplace(Tail(s), old, new)

\* mutation: the template is requested as it is
ResolveTemplate_NotReplaced(url_template) == url_template

\* url_template.replace("{+asset_path}", "")
ResolveTemplate(url_template) == StrReplace(url_template, AssetPath, <<>>)

(***************************************************************************)
(* bytes.decode('utf-8'): the code points, or None for UnicodeDecodeError  *)
(***************************************************************************)
IsCont(b) == b \in 128..191

RECURSIVE Utf8Decode(_)
Utf8Decode(b) ==
    IF b = <<>> THEN Some(<<>>)
    ELSE LET c == b[1]
             n == IF c < 128 THEN 1
                  ELSE IF c \in 194..223 THEN 2
                  ELSE IF c \in 224..239 THEN 3
                  ELSE IF c \in 240..244 THEN 4
                  ELSE 0
             wellFormed ==
                /\ n > 0
                /\ Len(b) >= n
                /\ \A i \in 2..n : IsCont(b[i])
                /\ (c = 224 => b[2] >= 160)
                /\ (c = 237 => b[2] <= 159)
                /\ (c = 240 => b[2] >= 144)
                /\ (c = 244 => b[2] <= 143)
             cp == CASE n = 1 -> c
                     [] n = 2 -> (c - 192) * 64 + (b[2] - 128)
                     [] n = 3 -> (c - 224) * 4096 + (b[2] - 128) * 64 + (b[3] - 128)
                     [] n = 4 -> (c - 240) * 262144 + (b[2] - 128) * 4096
                                 + (b[3] - 128) * 64 + (b[4] - 128)
             rest == Utf8Decode(SubSeq(b, n + 1, Len(b)))
         IN  IF ~wellFormed THEN None
             ELSE IF rest = None THEN None
             ELSE Some(<<cp>> \o rest[1])

(***************************************************************************)
(* The environment: what the content service and the transport can answer  *)
(***************************************************************************)
\* status.state strings the service may report; "viewable" is one no member has
StateStrings ==
    {"none", "pending", "success", "error", "impossible", "unknown", "viewable"}

InfoUrls == {None, Some(InfoUrl)}
UrlTemplates == {None, Some(FixtureTemplate), Some(PlainTemplate)}

\* one entry of file.representations.entries
Entries ==
    [status : {None} \cup {Some(s) : s \in StateStrings},
     info : InfoUrls,
     content : UrlTemplates]

ApiErrorMessages == {"Not Found", "Forbidden"}

\* client.files.get_file_by_id: BoxAPIError(message), or a file whose
\* representations are absent, empty or hold one entry
FileResponses ==
    {[err |-> Some(m), representations |-> None] : m \in ApiErrorMessages}
    \cup {[err |-> None, representations |-> None],
          [err |-> None, representations |-> Some(<<>>)]}
    \cup {[err |-> None, representations |-> Some(<<e>>)] : e \in Entries}

HttpReasons == {"Not Found", "Forbidden"}
\* response bodies: "Hi", "e-acute" in two bytes, a byte that is no UTF-8
Bodies == {<<72, 105>>, <<195, 169>>, <<255>>}

\* _do_request(client, url): the bytes of the response, or HTTPError
DoRequestOutcomes ==
    {[ok |-> TRUE, body |-> b, reason |-> ""] : b \in Bodies}
    \cup {[ok |-> FALSE, body |-> <<>>, reason |-> r] : r \in HttpReasons}

\* the request of generation discards the body: one success stands for all
GenerationOutcomes ==
    {o \in DoRequestOutcomes : o.ok => o.body = <<72, 105>>}

(***************************************************************************)
(* _file_representation_status_check on one response of the service        *)
(***************************************************************************)
Truthy(opt) == opt # None /\ opt[1] # <<>>

NoRep == [status |-> "IMPOSSIBLE", info_url |-> None, content_url |-> None]

\* mutation: a file without the representation is reported as not yet requested
DefaultStatus_None == "NONE"

\* file_representation_status before an entry's own status replaces it
DefaultStatus == "IMPOSSIBLE"

FileRepresentationStatusCheck(resp) ==
    IF resp.err # None
    THEN [exc |-> Some([type |-> "BoxAPIError", message |-> resp.err[1]]),
          value |-> NoRep]
    ELSE LET file_representation ==
                 IF Truthy(resp.representations)
                 THEN Some(resp.representations[1][1]) ELSE None
             hasStatus ==
                 file_representation # None /\ file_representation[1].status # None
             converted ==
                 IF hasStatus
                 THEN FileRepresentationStatus(file_representation[1].status[1])
                 ELSE Some(DefaultStatus)
             info_url ==
                 IF file_representation # None /\ Truthy(file_representation[1].info)
                 THEN file_representation[1].info ELSE None
             content_url ==
                 IF file_representation # None /\ Truthy(file_representation[1].content)
                 THEN file_representation[1].content ELSE None
         IN  IF converted = None
             THEN [exc |-> Some([type |-> "ValueError",
                                 message |-> file_representation[1].status[1]]),
                   value |-> NoRep]
             ELSE [exc |-> None,
                   value |-> [status |-> converted[1],
                              info_url |-> info_url,
                              content_url |-> content_url]]

(***************************************************************************)
(* The mappings _process_file_representation and box_file_text_extract     *)
(* return                                                                  *)
(***************************************************************************)
GenerationRequestedResult(t) ==
    [message |-> RepresentationTypeValue(t) \o " representation generation requested.",
     status |-> StatusValue("NONE")]

\* mutation: the pending note is returned under the error key
StillPendingResult_AsError(t) ==
    [error |-> RepresentationTypeValue(t)
               \o " representation is still being generated. Please try again later.",
     status |-> StatusValue("PENDING")]

StillPendingResult(t) ==
    [message |-> RepresentationTypeValue(t)
                 \o " representation is still being generated. Please try again later.",
     status |-> StatusValue("PENDING")]

\* mutation: the default return carries the status alone
TerminalResult_DefaultWithoutError(t, status) ==
    IF status = "ERROR"
    THEN [error |-> "Error generating " \o RepresentationTypeValue(t) \o " representation.",
          status |-> StatusValue(status)]
    ELSE IF status = "IMPOSSIBLE"
    THEN [error |-> RepresentationTypeValue(t)
                    \o " representation is impossible for this file.",
          status |-> StatusValue(status)]
    ELSE [status |-> StatusValue("UNKNOWN")]

\* the returns for a status that is neither NONE, PENDING nor SUCCESS
TerminalResult(t, status) ==
    IF status = "ERROR"
    THEN [error |-> "Error generating " \o RepresentationTypeValue(t) \o " representation.",
          status |-> StatusValue(status)]
    ELSE IF status = "IMPOSSIBLE"
    THEN [error |-> RepresentationTypeValue(t)
                    \o " representation is impossible for this file.",
          status |-> StatusValue(status)]
    ELSE [error |-> "Unknown status for " \o RepresentationTypeValue(t)
                    \o " representation.",
          status |-> StatusValue("UNKNOWN")]

NoDownloadUrlResult == [error |-> "No URL provided for representation download."]
NoGenerationUrlResult == [error |-> "No URL provided for representation generation."]
GenerationRequestedMessage == [message |-> "Representation generation requested."]

\* mutation: the message of the error is returned without the prefix
BoxApiErrorResult_NoPrefix(message) == [error |-> message]

BoxApiErrorResult(message) == [error |-> "Box API Error: " \o message]

\* dict.get(key)
DictGet(d, key) == IF key \in DOMAIN d THEN Some(d[key]) ELSE None

\* mutation: the test of the unknown status is left out of the fallback
FallsBack_UnknownForgotten(representation) ==
    ~ ( /\ DictGet(representation, "status") # Some(StatusValue("IMPOSSIBLE"))
        /\ DictGet(representation, "status") # Some(StatusValue("ERROR")) )

\* mutation: a markdown that is still pending falls back too
FallsBack_AlsoPending(representation) ==
    DictGet(representation, "status") \in
        {Some(StatusValue(m)) : m \in {"IMPOSSIBLE", "ERROR", "UNKNOWN", "PENDING"}}

\* mutation: the fallback is taken for every markdown result with an error key
FallsBack_OnAnyError(representation) == "error" \in DOMAIN representation

\* box_file_text_extract: the markdown result is not returned, the extracted
\* text is tried
FallsBack(representation) ==
    ~ ( /\ DictGet(representation, "status") # Some(StatusValue("IMPOSSIBLE"))
        /\ DictGet(representation, "status") # Some(StatusValue("ERROR"))
        /\ DictGet(representation, "status") # Some(StatusValue("UNKNOWN")) )

\* mutation: a BoxAPIError of the markdown probe is taken for a markdown that
\* is not to be had, and the extracted text is tried
OnBoxApiError_FallsBack(t) == IF t = MARKDOWN THEN "fallback" ELSE "return"

\* the BoxAPIError of a probe is raised again by the prober, leaves
\* _process_file_representation and is caught by box_file_text_extract
OnBoxApiError(t) == "return"

\* mutation: the retry is made with is_recursive left False
RecursiveFlag_NotSet == FALSE

\* is_recursive of the call _process_file_representation makes to itself
RecursiveFlag == TRUE

\* mutation: a SUCCESS of the retry is not downloaded
AfterProbe_RetryIgnoresSuccess(status, recursive) ==
    CASE status = "NONE" -> "request"
      [] status = "PENDING" -> IF ~recursive THEN "sleep" ELSE "return"
      [] status = "SUCCESS" -> IF ~recursive THEN "download" ELSE "return"
      [] OTHER -> "return"

\* mutation: an ERROR is waited on without end
AfterProbe_HangsOnError(status, recursive) ==
    CASE status = "NONE" -> "request"
      [] status = "PENDING" -> IF ~recursive THEN "sleep" ELSE "return"
      [] status = "SUCCESS" -> "download"
      [] status = "ERROR" -> "hang"
      [] OTHER -> "return"

\* mutation: an ERROR of the first probe is waited on and probed again
AfterProbe_RetryOnError(status, recursive) ==
    CASE status = "NONE" -> "request"
      [] status \in {"PENDING", "ERROR"} -> IF ~recursive THEN "sleep" ELSE "return"
      [] status = "SUCCESS" -> "download"
      [] OTHER -> "return"

\* mutation: PENDING waits and retries whatever is_recursive is
AfterProbe_PendingAlwaysWaits(status, recursive) ==
    CASE status = "NONE" -> "request"
      [] status = "PENDING" -> "sleep"
      [] status = "SUCCESS" -> "download"
      [] OTHER -> "return"

\* mutation: is_recursive is one flag shared by the invocations
AfterProbe_SharedFlag(status, recursive) ==
    LET shared == \E q \in DOMAIN is_recursive : is_recursive[q] IN
    CASE status = "NONE" -> "request"
      [] status = "PENDING" -> IF ~shared THEN "sleep" ELSE "return"
      [] status = "SUCCESS" -> "download"
      [] OTHER -> "return"

\* where _process_file_representation goes with the status it probed
AfterProbe(status, recursive) ==
    CASE status = "NONE" -> "request"
      [] status = "PENDING" -> IF ~recursive THEN "sleep" ELSE "return"
      [] status = "SUCCESS" -> "download"
      [] OTHER -> "return"

\* mutation: the NONE branch waits and retries whatever is_recursive is
AfterRequest_AlwaysRetry(recursive) == "sleep"

\* where _process_file_representation goes after the request of generation
AfterRequest(recursive) == IF ~recursive THEN "sleep" ELSE "return"

\* a call made: op of kind t with the URL it was given, how it ended (out, and
\* msg: the message of the error it raised), and the seconds slept
Event(op, t, url, out, msg, n) ==
    [op |-> op, kind |-> t, url |-> url, out |-> out, msg |-> msg, n |-> n,
     seen |-> None, hint |-> ""]

\* what a probe saw in the response of the service: how many representation
\* entries, and the status.state string of the first (None when there is none)
Seen(resp) ==
    LET entries == IF resp.representations = None THEN <<>>
                   ELSE resp.representations[1]
    IN  [entries |-> Len(entries),
         state |-> IF entries = <<>> THEN None ELSE entries[1].status]

\* mutation: every probe asks for the markdown
RepHints_AlwaysMarkdown(t) == "[markdown]"

\* x_rep_hints of get_file_by_id
RepHints(t) == "[" \o RepresentationTypeValue(t) \o "]"

\* a probe, with the hint it sent and what it saw when the service answered
ProbeEvent(t, resp, r) ==
    [Event("probe", t, None,
           IF r.exc # None THEN r.exc[1].type ELSE r.value.status,
           IF r.exc # None THEN r.exc[1].message ELSE "", 0)
     EXCEPT !.seen = IF resp.err # None THEN None ELSE Some(Seen(resp)),
            !.hint = RepHints(t)]

\* a GET of _do_request
GetEvent(t, url, o) ==
    Event("get", t, Some(url), IF o.ok THEN "ok" ELSE "HTTPError", o.reason, 0)

\* the GETs of one helper call, each with the outcome o
RECURSIVE GetEvents(_, _, _)
GetEvents(t, urls, o) ==
    IF urls = <<>> THEN <<>>
    ELSE <<GetEvent(t, Head(urls), o)>> \o GetEvents(t, Tail(urls), o)

\* mutation: the info URL is requested without the test for None
RequestFileRepresentationGeneration_NoCheck(info_url, o) ==
    LET url == IF info_url = None THEN <<>> ELSE info_url[1] IN
    IF ~o.ok
    THEN [urls |-> <<url>>, ret |-> None,
          exc |-> Some([type |-> "HTTPError", message |-> o.reason])]
    ELSE [urls |-> <<url>>, ret |-> Some(GenerationRequestedMessage), exc |-> None]

\* _request_file_representation_generation, the GET ending as o: the URLs
\* requested, the mapping returned or the exception raised
RequestFileRepresentationGeneration(info_url, o) ==
    IF info_url = None
    THEN [urls |-> <<>>, ret |-> Some(NoGenerationUrlResult), exc |-> None]
    ELSE IF ~o.ok
    THEN [urls |-> <<info_url[1]>>, ret |-> None,
          exc |-> Some([type |-> "HTTPError", message |-> o.reason])]
    ELSE [urls |-> <<info_url[1]>>, ret |-> Some(GenerationRequestedMessage),
          exc |-> None]

\* mutation: a failed download is requested a second time
DownloadFileRepresentation_Retry(url_template, o) ==
    IF url_template = None
    THEN [urls |-> <<>>, ret |-> Some(NoDownloadUrlResult), exc |-> None]
    ELSE LET url == ResolveTemplate(url_template[1]) IN
         IF ~o.ok
         THEN [urls |-> <<url, url>>, ret |-> Some([error |-> o.reason]), exc |-> None]
         ELSE IF Utf8Decode(o.body) = None
         THEN [urls |-> <<url>>, ret |-> None,
               exc |-> Some([type |-> "UnicodeDecodeError", message |-> ""])]
         ELSE [urls |-> <<url>>, ret |-> Some([content |-> Utf8Decode(o.body)[1]]),
               exc |-> None]

\* _download_file_representation, the GET ending as o
DownloadFileRepresentation(url_template, o) ==
    IF url_template = None
    THEN [urls |-> <<>>, ret |-> Some(NoDownloadUrlResult), exc |-> None]
    ELSE LET url == ResolveTemplate(url_template[1]) IN
         IF ~o.ok
         THEN [urls |-> <<url>>, ret |-> Some([error |-> o.reason]), exc |-> None]
         ELSE IF Utf8Decode(o.body) = None
         THEN [urls |-> <<url>>, ret |-> None,
               exc |-> Some([type |-> "UnicodeDecodeError", message |-> ""])]
         ELSE [urls |-> <<url>>, ret |-> Some([content |-> Utf8Decode(o.body)[1]]),
               exc |-> None]

\* the key and the text of a mapping a helper returned, for the history
ReturnedKey(r) ==
    IF r.exc # None THEN r.exc[1].type
    ELSE IF "error" \in DOMAIN r.ret[1] THEN "error"
    ELSE IF "message" \in DOMAIN r.ret[1] THEN "message"
    ELSE "content"

ReturnedText(r) ==
    IF r.exc # None THEN r.exc[1].message
    ELSE IF "error" \in DOMAIN r.ret[1] THEN r.ret[1].error
    ELSE IF "message" \in DOMAIN r.ret[1] THEN r.ret[1].message
    ELSE ""

SleepSeconds == 5

(***************************************************************************)
(* The invocations                                                         *)
(***************************************************************************)
Init ==
    /\ pc = [p \in Procs |-> "idle"]
    /\ kind = [p \in Procs |-> MARKDOWN]
    /\ is_recursive = [p \in Procs |-> FALSE]
    /\ rep = [p \in Procs |-> NoRep]
    /\ result = [p \in Procs |-> None]
    /\ exc = [p \in Procs |-> None]
    /\ calls = [p \in Procs |-> <<>>]
    /\ attempts = [p \in Procs |-> <<>>]
    /\ folder_pc = "idle"
    /\ folder_is_recursive = FALSE
    /\ folder_stack = <<>>
    /\ folder_return = <<>>
    /\ folder_calls = <<>>
    /\ hub_pc = "idle"
    /\ hub_fn = ""
    /\ hub_args = <<>>
    /\ hub_items \in {{}, {[type |-> "file", id |-> "1"]}}
    /\ hub_marker = <<>>
    /\ hub_result = <<>>
    /\ hub_return = <<>>
    /\ hub_exc = <<>>
    /\ hub_calls = <<>>
    /\ file_tags = <<>>
    /\ tag_pc = [p \in TagProcs |-> "idle"]
    /\ tag_fn = [p \in TagProcs |-> ""]
    /\ tag_arg = [p \in TagProcs |-> ""]
    /\ tags = [p \in TagProcs |-> <<>>]
    /\ tag_return = [p \in TagProcs |-> <<>>]
    /\ tag_log = <<>>

\* box_file_text_extract is called: _process_file_representation(MARKDOWN)
Call(p) ==
    /\ pc[p] = "idle"
    /\ UNCHANGED notReprVars
    /\ pc' = [pc EXCEPT ![p] = "probe"]
    /\ kind' = [kind EXCEPT ![p] = MARKDOWN]
    /\ is_recursive' = [is_recursive EXCEPT ![p] = FALSE]
    /\ UNCHANGED <<rep, result, exc, calls, attempts>>

\* _process_file_representation returns r to box_file_text_extract, which
\* returns it or falls back to the extracted text
ProcessReturn(p, r) ==
    /\ attempts' = [attempts EXCEPT ![p] = Append(@, [kind |-> kind[p], result |-> r])]
    /\ IF kind[p] = MARKDOWN /\ FallsBack(r)
       THEN /\ kind' = [kind EXCEPT ![p] = EXTRACTED_TEXT]
            /\ is_recursive' = [is_recursive EXCEPT ![p] = FALSE]
            /\ pc' = [pc EXCEPT ![p] = "probe"]
            /\ UNCHANGED result
       ELSE /\ result' = [result EXCEPT ![p] = Some(r)]
            /\ pc' = [pc EXCEPT ![p] = "done"]
            /\ UNCHANGED <<kind, is_recursive>>

\* an exception that box_file_text_extract does not catch
Raise(p, e) ==
    /\ exc' = [exc EXCEPT ![p] = Some(e)]
    /\ pc' = [pc EXCEPT ![p] = "raised"]
    /\ UNCHANGED <<kind, is_recursive, result, attempts>>

\* _file_representation_status_check and the dispatch on its status, the
\* service answering with one of responses
ProbeOn(p, responses) ==
    /\ pc[p] = "probe"
    /\ UNCHANGED notReprVars
    /\ \E resp \in responses :
         LET r == FileRepresentationStatusCheck(resp)
             next == AfterProbe(r.value.status, is_recursive[p])
         IN  /\ calls' = [calls EXCEPT ![p] = Append(@, ProbeEvent(kind[p], resp, r))]
             /\ IF r.exc # None /\ r.exc[1].type = "BoxAPIError"
                THEN IF OnBoxApiError(kind[p]) = "fallback"
                     THEN /\ kind' = [kind EXCEPT ![p] = EXTRACTED_TEXT]
                          /\ is_recursive' = [is_recursive EXCEPT ![p] = FALSE]
                          /\ UNCHANGED <<pc, rep, result, exc, attempts>>
                     ELSE /\ result' = [result EXCEPT ![p] =
                                           Some(BoxApiErrorResult(r.exc[1].message))]
                          /\ pc' = [pc EXCEPT ![p] = "done"]
                          /\ UNCHANGED <<kind, is_recursive, rep, exc, attempts>>
                ELSE IF r.exc # None
                THEN /\ Raise(p, r.exc[1])
                     /\ UNCHANGED rep
                ELSE /\ rep' = [rep EXCEPT ![p] = r.value]
                     /\ UNCHANGED exc
                     /\ IF next = "return"
                        THEN ProcessReturn(p,
                                 IF r.value.status = "PENDING"
                                 THEN StillPendingResult(kind[p])
                                 ELSE TerminalResult(kind[p], r.value.status))
                        ELSE /\ pc' = [pc EXCEPT ![p] = next]
                             /\ UNCHANGED <<kind, is_recursive, result, attempts>>

Probe(p) == ProbeOn(p, FileResponses)

\* _request_file_representation_generation and what follows it, the GET
\* ending as one of outcomes
RequestGenerationOn(p, outcomes) ==
    /\ pc[p] = "request"
    /\ UNCHANGED notReprVars
    /\ \E o \in outcomes :
         LET info_url == rep[p].info_url
             r == RequestFileRepresentationGeneration(info_url, o)
             asked == Event("request", kind[p], info_url,
                            ReturnedKey(r), ReturnedText(r), 0)
         IN  /\ UNCHANGED rep
             /\ r.urls = <<>> => o.ok
             /\ calls' = [calls EXCEPT ![p] =
                             Append(@, asked) \o GetEvents(kind[p], r.urls, o)]
             /\ IF r.exc # None
                THEN Raise(p, r.exc[1])
                ELSE /\ UNCHANGED exc
                     /\ IF AfterRequest(is_recursive[p]) = "sleep"
                        THEN /\ pc' = [pc EXCEPT ![p] = "sleep"]
                             /\ UNCHANGED <<kind, is_recursive, result, attempts>>
                        ELSE ProcessReturn(p, GenerationRequestedResult(kind[p]))

RequestGeneration(p) == RequestGenerationOn(p, GenerationOutcomes)

\* time.sleep(5) and the recursive call
Sleep(p) ==
    /\ pc[p] = "sleep"
    /\ UNCHANGED notReprVars
    /\ calls' = [calls EXCEPT ![p] = Append(@, Event("sleep", kind[p], None, "", "", SleepSeconds))]
    /\ is_recursive' = [is_recursive EXCEPT ![p] = RecursiveFlag]
    /\ pc' = [pc EXCEPT ![p] = "probe"]
    /\ UNCHANGED <<kind, rep, result, exc, attempts>>

\* _download_file_representation, whose return _process_file_representation
\* returns as it is
DownloadOn(p, outcomes) ==
    /\ pc[p] = "download"
    /\ UNCHANGED notReprVars
    /\ \E o \in outcomes :
         LET url_template == rep[p].content_url
             r == DownloadFileRepresentation(url_template, o)
             asked == Event("download", kind[p], url_template,
                            ReturnedKey(r), ReturnedText(r), 0)
         IN  /\ UNCHANGED rep
             /\ r.urls = <<>> => o = [ok |-> TRUE, body |-> <<72, 105>>, reason |-> ""]
             /\ calls' = [calls EXCEPT ![p] =
                             Append(@, asked) \o GetEvents(kind[p], r.urls, o)]
             /\ IF r.exc # None
                THEN Raise(p, r.exc[1])
                ELSE /\ UNCHANGED exc
                     /\ ProcessReturn(p, r.ret[1])

Download(p) == DownloadOn(p, DoRequestOutcomes)

Step(p) ==
    \/ Call(p)
    \/ Probe(p)
    \/ RequestGeneration(p)
    \/ Sleep(p)
    \/ Download(p)

Next == \E p \in SeqProcs : Step(p)

Spec == Init /\ [][Next]_vars

\* every collaborator call returns or raises: a step that waits for one is
\* taken in the end; nothing makes a caller invoke box_file_text_extract
CallsReturn ==
    \A p \in SeqProcs :
        /\ WF_vars(Probe(p))
        /\ WF_vars(RequestGeneration(p))
        /\ WF_vars(Sleep(p))
        /\ WF_vars(Download(p))

SpecLive == Spec /\ CallsReturn

(***************************************************************************)
(* Invocations running concurrently on one file: every invocation of Procs *)
(* steps, in any order; the service answers each call as it likes, with    *)
(* one response for each status and one GET outcome of each sort           *)
(***************************************************************************)
ConcFileResponses ==
    {[err |-> Some("Not Found"), representations |-> None]}
    \cup {[err |-> None,
           representations |-> Some(<<[status |-> Some(s), info |-> Some(InfoUrl),
                                       content |-> Some(PlainTemplate)]>>)] :
              s \in {"none", "pending", "success", "error"}}

ConcOutcomes ==
    {[ok |-> TRUE, body |-> <<72, 105>>, reason |-> ""],
     [ok |-> FALSE, body |-> <<>>, reason |-> "Not Found"]}

ConcStep(p) ==
    \/ Call(p)
    \/ ProbeOn(p, ConcFileResponses)
    \/ RequestGenerationOn(p, ConcOutcomes)
    \/ Sleep(p)
    \/ DownloadOn(p, ConcOutcomes)

NextConc == \E p \in Procs : ConcStep(p)

SpecConc == Init /\ [][NextConc]_vars

(***************************************************************************)
(* box_folder_items_list (box_api_folder.py).  The invocation steps from   *)
(* one get_folder_items call to the next; between two calls it runs        *)
(* process_items and the returns of the nested calls.  folder_stack holds  *)
(* one frame for box_folder_items_list and for each nested call made for a *)
(* subfolder.  The service answers every call with an error or with a page *)
(* of its choice.                                                          *)
(***************************************************************************)
MaxCalls == 3

RootFolderId == "0"

\* the n-th answer of the service may hold one file and one folder of its own
NewFile(n) == [type |-> "file", id |-> "f" \o ToString(n), name |-> "file"]
NewFolder(n) == [type |-> "folder", id |-> "d" \o ToString(n), name |-> "folder"]

\* client.folders.get_folder_items, the n-th call: BoxAPIError(message) or a
\* page (entries, next_marker)
FolderResponses(n) ==
    {[err |-> Some(m), entries |-> <<>>, next_marker |-> None] : m \in ApiErrorMessages}
    \cup [err : {None},
          entries : {<<>>, <<NewFile(n)>>, <<NewFolder(n)>>, <<NewFile(n), NewFolder(n)>>},
          next_marker : {None, Some("m" \o ToString(n))}]

\* a frame: the locals of one call of box_folder_items_list, and of the
\* process_items it is running (todo: the entries not yet processed)
NewFrame(folder_id) ==
    [folder_id |-> folder_id, result |-> <<>>, marker |-> None,
     items |-> <<>>, todo |-> <<>>, next_marker |-> None]

\* item.to_dict()
ToDict(item) == item

\* mutation: an empty list is returned under folder_items
FolderReturn_EmptyList(res) == [folder_items |-> res]

\* the return of lines 90-94
FolderReturn(res) ==
    IF res # <<>> THEN [folder_items |-> res]
    ELSE [message |-> "No items found in folder."]

\* the item_dict of a subfolder once its nested call returned
Nested(item, subfolder_result) ==
    IF "folder_items" \in DOMAIN subfolder_result
    THEN [type |-> item.type, id |-> item.id, name |-> item.name,
          items |-> subfolder_result.folder_items]
    ELSE ToDict(item)

RECURSIVE ProcessItems(_, _)
RECURSIVE FolderReturns(_, _, _)

\* process_items and the rest of the loop body, run until the next
\* get_folder_items call or the return of the outermost call
ProcessItems(stack, recursive) ==
    LET top == stack[Len(stack)]
        below == SubSeq(stack, 1, Len(stack) - 1)
    IN  IF top.todo = <<>>
        THEN LET res == top.result \o top.items IN
             IF top.next_marker = None
             THEN FolderReturns(below, FolderReturn(res), recursive)
             ELSE [stack |-> Append(below, [top EXCEPT !.result = res,
                                                       !.items = <<>>,
                                                       !.marker = top.next_marker]),
                   ret |-> None]
        ELSE LET item == Head(top.todo) IN
             IF item.type = "folder" /\ recursive
             THEN [stack |-> Append(stack, NewFrame(item.id)), ret |-> None]
             ELSE ProcessItems(
                      Append(below, [top EXCEPT !.items = Append(@, ToDict(item)),
                                                !.todo = Tail(@)]),
                      recursive)

\* a call of box_folder_items_list returns value to the frame below it
FolderReturns(stack, value, recursive) ==
    IF stack = <<>> THEN [stack |-> <<>>, ret |-> Some(value)]
    ELSE LET top == stack[Len(stack)]
             below == SubSeq(stack, 1, Len(stack) - 1)
         IN  ProcessItems(
                 Append(below,
                        [top EXCEPT !.items = Append(@, Nested(Head(top.todo), value)),
                                    !.todo = Tail(@)]),
                 recursive)

\* one get_folder_items call answered by resp, and what the code does with it
AfterPage(stack, resp, recursive) ==
    LET top == stack[Len(stack)]
        below == SubSeq(stack, 1, Len(stack) - 1)
    IN  IF resp.err # None
        THEN FolderReturns(below, [error |-> resp.err[1]], recursive)
        ELSE IF resp.entries = <<>>
        THEN FolderReturns(below, FolderReturn(top.result), recursive)
        ELSE ProcessItems(
                 Append(below, [top EXCEPT !.todo = resp.entries,
                                           !.next_marker = resp.next_marker]),
                 recursive)

\* box_folder_items_list(client, folder_id, is_recursive) is called
FolderCall ==
    /\ folder_pc = "idle"
    /\ \E r \in BOOLEAN : folder_is_recursive' = r
    /\ folder_stack' = <<NewFrame(RootFolderId)>>
    /\ folder_pc' = "list"
    /\ UNCHANGED <<folder_return, folder_calls>>
    /\ UNCHANGED notFolderVars

\* get_folder_items of the innermost call, and the code up to the next one
GetFolderItems ==
    /\ folder_pc = "list"
    /\ Len(folder_calls) < MaxCalls
    /\ \E resp \in FolderResponses(Len(folder_calls) + 1) :
         LET top == folder_stack[Len(folder_stack)]
             r == AfterPage(folder_stack, resp, folder_is_recursive)
         IN  /\ folder_calls' = Append(folder_calls,
                                       [folder_id |-> top.folder_id,
                                        marker |-> top.marker,
                                        depth |-> Len(folder_stack),
                                        resp |-> resp])
             /\ folder_stack' = r.stack
             /\ folder_return' = r.ret
             /\ folder_pc' = IF r.ret # None THEN "done" ELSE "list"
    /\ UNCHANGED folder_is_recursive
    /\ UNCHANGED notFolderVars

NextFolder == FolderCall \/ GetFolderItems

SpecFolder == Init /\ [][NextFolder]_vars

(***************************************************************************)
(* box_hub_list, box_hub_item_add and box_hub_item_remove (box_api_hubs.py)*)
(* One invocation of one of them steps from the call to each request it    *)
(* makes.  The str arguments whose case matters (direction, item_type) are *)
(* sequences of one-character strings, so that upper() and lower() are     *)
(* computed.                                                               *)
(***************************************************************************)
LowerLetters ==
    <<"a", "b", "c", "d", "e", "f", "g", "h", "i", "j", "k", "l", "m",
      "n", "o", "p", "q", "r", "s", "t", "u", "v", "w", "x", "y", "z">>
UpperLetters ==
    <<"A", "B", "C", "D", "E", "F", "G", "H", "I", "J", "K", "L", "M",
      "N", "O", "P", "Q", "R", "S", "T", "U", "V", "W", "X", "Y", "Z">>

\* the letter of `to` at the place c has in `from`; c itself when it has none
MapChar(c, from, to) ==
    IF \E i \in 1..Len(from) : from[i] = c
    THEN to[CHOOSE i \in 1..Len(from) : from[i] = c]
    ELSE c

\* str.upper() and str.lower()
Upper(str) == [i \in 1..Len(str) |-> MapChar(str[i], LowerLetters, UpperLetters)]
Lower(str) == [i \in 1..Len(str) |-> MapChar(str[i], UpperLetters, LowerLetters)]

\* the text of a str, as the f-strings put it into a message
RECURSIVE Text(_)
Text(str) == IF str = <<>> THEN "" ELSE Head(str) \o Text(Tail(str))

\* [direction.value for direction in GetHubsV2025R0Direction]
ValidDirections == {<<"A", "S", "C">>, <<"D", "E", "S", "C">>}

InvalidDirectionMessage(direction) ==
    "Invalid direction: " \o Text(direction)
        \o ". Valid directions are: ['ASC', 'DESC']"

\* mutation: the direction is passed on without the test against the values
DirectionToEnum_NoCheck(direction) ==
    [exc |-> None, value |-> Some(Text(Upper(direction)))]

\* _direction_to_enum: the member, or ValueError
DirectionToEnum(direction) ==
    LET upper == Upper(direction) IN
    IF upper \notin ValidDirections
    THEN [exc |-> Some([type |-> "ValueError",
                        message |-> InvalidDirectionMessage(upper)]),
          value |-> None]
    ELSE [exc |-> None, value |-> Some(Text(upper))]

\* the directions a caller may pass: None, "", valid ones in either case, others
Directions ==
    {None, Some(<<>>), Some(<<"A", "S", "C">>), Some(<<"a", "s", "c">>),
     Some(<<"D", "e", "s", "c">>), Some(<<"u", "p">>),
     Some(<<"I", "N", "V", "A", "L", "I", "D">>)}

\* the item types a caller may pass
ItemTypes ==
    {<<"f", "i", "l", "e">>, <<"F", "i", "l", "e">>, <<"f", "o", "l", "d", "e", "r">>,
     <<"W", "E", "B", "_", "L", "I", "N", "K">>, <<"w", "e", "b", "l", "i", "n", "k">>,
     <<"I", "n", "v", "a", "l", "i", "d">>, <<>>}

ItemIds == {"1", "2"}

\* mutation: an item type that matches no case is taken for a file
ItemReference_DefaultFile(item_type, item_id) ==
    LET lower == Text(Lower(item_type)) IN
    IF lower \in {"folder", "web_link"}
    THEN [exc |-> None, value |-> Some([type |-> lower, id |-> item_id])]
    ELSE [exc |-> None, value |-> Some([type |-> "file", id |-> item_id])]

\* match item_type.lower(): the reference of the item, or ValueError
ItemReference(item_type, item_id) ==
    LET lower == Text(Lower(item_type)) IN
    IF lower \in {"file", "folder", "web_link"}
    THEN [exc |-> None, value |-> Some([type |-> lower, id |-> item_id])]
    ELSE [exc |-> Some([type |-> "ValueError",
                        message |-> "Invalid item type: " \o Text(item_type)]),
          value |-> None]

\* client.hubs.get_hubs_v2025_r0: BoxAPIError(message), or a page of hubs
HubResponses ==
    {[err |-> Some(m), entries |-> <<>>, next_marker |-> None] : m \in ApiErrorMessages}
    \cup [err : {None},
          entries : {<<>>, <<[type |-> "hubs", id |-> "h1"]>>},
          next_marker : {None, Some("m")}]

\* box_hub_list(client, direction=...) is called; an invalid direction is
\* returned as an error before any request
HubListCall ==
    /\ hub_pc = "idle"
    /\ \E direction \in Directions :
         LET checked == direction # None /\ direction[1] # <<>>
             r == IF checked THEN DirectionToEnum(direction[1])
                  ELSE [exc |-> None, value |-> None]
         IN  /\ hub_fn' = "box_hub_list"
             /\ hub_args' = [direction |-> direction, direction_enum |-> r.value]
             /\ IF r.exc # None
                THEN /\ hub_return' = Some([error |-> r.exc[1].message])
                     /\ hub_pc' = "done"
                ELSE /\ hub_pc' = "get_hubs"
                     /\ UNCHANGED hub_return
    /\ UNCHANGED <<hub_items, hub_marker, hub_result, hub_exc, hub_calls>>
    /\ UNCHANGED notHubVars

HubRequest(api, resp) ==
    [api |-> api, direction |-> hub_args.direction_enum, marker |-> hub_marker,
     ok |-> resp.err = None]

\* the first get_hubs_v2025_r0 request of box_hub_list
GetHubs ==
    /\ hub_pc = "get_hubs"
    /\ \E resp \in HubResponses :
         /\ hub_calls' = Append(hub_calls, HubRequest("get_hubs", resp))
         /\ IF resp.err # None
            THEN /\ hub_return' = Some([error |-> resp.err[1]])
                 /\ hub_pc' = "done"
                 /\ UNCHANGED <<hub_result, hub_marker>>
            ELSE IF resp.entries = <<>>
            THEN /\ hub_return' = Some([message |-> "No hubs found."])
                 /\ hub_pc' = "done"
                 /\ UNCHANGED <<hub_result, hub_marker>>
            ELSE /\ hub_result' = resp.entries
                 /\ hub_marker' = resp.next_marker
                 /\ IF resp.next_marker # None
                    THEN hub_pc' = "get_more" /\ UNCHANGED hub_return
                    ELSE /\ hub_return' = Some([hubs |-> resp.entries])
                         /\ hub_pc' = "done"
    /\ UNCHANGED <<hub_fn, hub_args, hub_items, hub_exc>>
    /\ UNCHANGED notHubVars

\* a request of the `while marker` loop of box_hub_list
GetMoreHubs ==
    /\ hub_pc = "get_more"
    /\ Len(hub_calls) < MaxCalls
    /\ \E resp \in HubResponses :
         /\ hub_calls' = Append(hub_calls, HubRequest("get_hubs", resp))
         /\ IF resp.err # None
            THEN /\ hub_return' = Some([error |-> resp.err[1]])
                 /\ hub_pc' = "done"
                 /\ UNCHANGED <<hub_result, hub_marker>>
            ELSE /\ hub_result' = hub_result \o resp.entries
                 /\ hub_marker' = resp.next_marker
                 /\ IF resp.next_marker # None
                    THEN hub_pc' = "get_more" /\ UNCHANGED hub_return
                    ELSE /\ hub_return' = Some([hubs |-> hub_result \o resp.entries])
                         /\ hub_pc' = "done"
    /\ UNCHANGED <<hub_fn, hub_args, hub_items, hub_exc>>
    /\ UNCHANGED notHubVars

\* box_hub_item_add or box_hub_item_remove (fn) is called: the item
\* reference is built, or ValueError leaves the function
HubItemCall(fn, action) ==
    /\ hub_pc = "idle"
    /\ \E item_type \in ItemTypes, item_id \in ItemIds :
         LET r == ItemReference(item_type, item_id) IN
         /\ hub_fn' = fn
         /\ hub_args' = [item_type |-> item_type, item_id |-> item_id,
                         action |-> action, item |-> r.value]
         /\ IF r.exc # None
            THEN hub_exc' = r.exc /\ hub_pc' = "raised"
            ELSE hub_pc' = "manage" /\ UNCHANGED hub_exc
    /\ UNCHANGED <<hub_items, hub_marker, hub_result, hub_return, hub_calls>>
    /\ UNCHANGED notHubVars

HubItemAddCall == HubItemCall("box_hub_item_add", "add")
HubItemRemoveCall == HubItemCall("box_hub_item_remove", "remove")

\* client.hub_items.manage_hub_items_v2025_r0 with the one operation: the
\* service applies it, or answers with BoxAPIError
ManageHubItems ==
    /\ hub_pc = "manage"
    /\ LET item == hub_args.item[1]
           request == [api |-> "manage_hub_items", action |-> hub_args.action,
                       item |-> item]
       IN  \/ /\ hub_items' = IF hub_args.action = "add"
                              THEN hub_items \cup {item} ELSE hub_items \ {item}
              /\ hub_return' = Some([operations |->
                                         <<[action |-> hub_args.action, item |-> item,
                                            status |-> 200]>>])
              /\ hub_calls' = Append(hub_calls, request)
           \/ /\ \E m \in ApiErrorMessages : hub_return' = Some([error |-> m])
              /\ hub_calls' = Append(hub_calls, request)
              /\ UNCHANGED hub_items
    /\ hub_pc' = "done"
    /\ UNCHANGED <<hub_fn, hub_args, hub_marker, hub_result, hub_exc>>
    /\ UNCHANGED notHubVars

NextHub ==
    \/ HubListCall
    \/ GetHubs
    \/ GetMoreHubs
    \/ HubItemAddCall
    \/ HubItemRemoveCall
    \/ ManageHubItems

SpecHub == Init /\ [][NextHub]_vars

(***************************************************************************)
(* box_file_tag_add and box_file_tag_remove (box_api_file.py).  A call     *)
(* reads the tags of the file (get_file_by_id), changes its copy and       *)
(* writes the copy back (update_file_by_id): two requests, and two steps.  *)
(* A caller makes its calls one after another; SpecTagConc has two callers *)
(* on the same file.                                                       *)
(***************************************************************************)
MaxTagCalls == 2

TagNames == {"a", "b"}

Range(seq) == {seq[i] : i \in 1..Len(seq)}

\* mutation: the tag is appended without the test
TagsAfterAdd_NoTest(ts, tag) == Append(ts, tag)

\* if tag not in tags: tags.append(tag)
TagsAfterAdd(ts, tag) == IF tag \notin Range(ts) THEN Append(ts, tag) ELSE ts

\* list.remove(tag): the list without its first element equal to tag
RECURSIVE ListRemove(_, _)
ListRemove(ts, tag) ==
    IF ts = <<>> THEN <<>>
    ELSE IF Head(ts) = tag THEN Tail(ts)
    ELSE <<Head(ts)>> \o ListRemove(Tail(ts), tag)

\* if tag in tags: tags.remove(tag)
TagsAfterRemove(ts, tag) == IF tag \in Range(ts) THEN ListRemove(ts, tag) ELSE ts

TagCallsMade ==
    LET Test(e) == e.op = "call" IN Len(SelectSeq(tag_log, Test))

\* an entry of the history: what p did, whether the service answered it
\* without error, and the tags of the file after it
TagEvent(p, op, ok) ==
    [p |-> p, op |-> op, fn |-> tag_fn[p], tag |-> tag_arg[p], ok |-> ok,
     file_tags |-> file_tags]

\* box_file_tag_add / box_file_tag_remove (fn) is called with tag
TagCall(p, fn) ==
    /\ tag_pc[p] \in {"idle", "done"}
    /\ TagCallsMade < MaxTagCalls
    /\ \E tag \in TagNames :
         /\ tag_arg' = [tag_arg EXCEPT ![p] = tag]
         /\ tag_log' = Append(tag_log,
                              [TagEvent(p, "call", TRUE) EXCEPT !.fn = fn, !.tag = tag])
    /\ tag_fn' = [tag_fn EXCEPT ![p] = fn]
    /\ tag_pc' = [tag_pc EXCEPT ![p] = "read"]
    /\ tags' = [tags EXCEPT ![p] = <<>>]
    /\ tag_return' = [tag_return EXCEPT ![p] = None]
    /\ UNCHANGED file_tags
    /\ UNCHANGED notTagVars

TagAddCall(p) == TagCall(p, "box_file_tag_add")
TagRemoveCall(p) == TagCall(p, "box_file_tag_remove")

\* get_file_by_id(fields=["tags"]).tags and the change of the copy; a file
\* without tags may answer None or an empty list
TagRead(p) ==
    /\ tag_pc[p] = "read"
    /\ \/ \E m \in ApiErrorMessages :
              /\ tag_return' = [tag_return EXCEPT ![p] = Some([error |-> m])]
              /\ tag_pc' = [tag_pc EXCEPT ![p] = "done"]
              /\ tag_log' = Append(tag_log, TagEvent(p, "read", FALSE))
              /\ UNCHANGED tags
       \/ \E existing_tags \in
                 {Some(file_tags)} \cup (IF file_tags = <<>> THEN {None} ELSE {}) :
              LET copy == IF Truthy(existing_tags) THEN existing_tags[1] ELSE <<>> IN
              /\ tags' = [tags EXCEPT ![p] =
                              IF tag_fn[p] = "box_file_tag_add"
                              THEN TagsAfterAdd(copy, tag_arg[p])
                              ELSE TagsAfterRemove(copy, tag_arg[p])]
              /\ tag_pc' = [tag_pc EXCEPT ![p] = "write"]
              /\ tag_log' = Append(tag_log, TagEvent(p, "read", TRUE))
              /\ UNCHANGED tag_return
    /\ UNCHANGED <<file_tags, tag_fn, tag_arg>>
    /\ UNCHANGED notTagVars

\* update_file_by_id(tags=tags): the service replaces the tags of the file
TagWrite(p) ==
    /\ tag_pc[p] = "write"
    /\ \/ \E m \in ApiErrorMessages :
              /\ tag_return' = [tag_return EXCEPT ![p] = Some([error |-> m])]
              /\ tag_log' = Append(tag_log, TagEvent(p, "write", FALSE))
              /\ UNCHANGED file_tags
       \/ /\ file_tags' = tags[p]
          /\ tag_return' = [tag_return EXCEPT ![p] =
                               Some([updated_file |-> [type |-> "file", tags |-> tags[p]]])]
          /\ tag_log' = Append(tag_log,
                               [TagEvent(p, "write", TRUE) EXCEPT !.file_tags = tags[p]])
    /\ tag_pc' = [tag_pc EXCEPT ![p] = "done"]
    /\ UNCHANGED <<tag_fn, tag_arg, tags>>
    /\ UNCHANGED notTagVars

TagStep(p) ==
    \/ TagAddCall(p)
    \/ TagRemoveCall(p)
    \/ TagRead(p)
    \/ TagWrite(p)

NextTag == \E p \in TagSeqProcs : TagStep(p)

SpecTag == Init /\ [][NextTag]_vars

NextTagConc == \E p \in TagProcs : TagStep(p)

SpecTagConc == Init /\ [][NextTagConc]_vars

(***************************************************************************)
(* Reading the history of an invocation                                    *)
(***************************************************************************)
\* the calls of invocation p with operation op, and those of kind t among them
OpEvents(p, op) ==
    LET Test(e) == e.op = op IN SelectSeq(calls[p], Test)

KindEvents(p, op, t) ==
    LET Test(e) == e.op = op /\ e.kind = t IN SelectSeq(calls[p], Test)

\* what the probes of kind t returned (a status member) or raised, in order
ProbeOuts(p, t) ==
    LET ev == KindEvents(p, "probe", t) IN [i \in 1..Len(ev) |-> ev[i].out]

\* the finished _process_file_representation calls of kind t
AttemptsOf(p, t) ==
    LET Test(a) == a.kind = t IN SelectSeq(attempts[p], Test)

Last(s) == s[Len(s)]

Ended(p) == pc[p] \in {"done", "raised"}

(***************************************************************************)
(* C1: in every invocation, at every moment, each representation kind has  *)
(* been probed at most twice (the first probe and at most one retry), so   *)
(* at most four probes have been made in all, whatever the service         *)
(* answered.                                                               *)
(***************************************************************************)
C1_AtMostTwoProbesPerKind ==
    \A p \in Procs :
        /\ \A t \in RepresentationType : Len(KindEvents(p, "probe", t)) <= 2
        /\ Len(OpEvents(p, "probe")) <= 4

\* an invocation that returned after probing both kinds twice
C1_Witness ==
    \E p \in Procs :
        /\ pc[p] = "done"
        /\ \A t \in RepresentationType : Len(KindEvents(p, "probe", t)) = 2

(***************************************************************************)
(* C2 as stated: when the first probe returned NONE and the invocation     *)
(* returned, the generation requester was called exactly once in the       *)
(* invocation, markdown was waited for once and probed twice, and a second *)
(* NONE gave a `message` result with status "none".                        *)
(***************************************************************************)
C2_Original ==
    \A p \in Procs :
        LET outs == ProbeOuts(p, MARKDOWN) IN
        (pc[p] = "done" /\ outs # <<>> /\ outs[1] = "NONE") =>
            /\ Len(OpEvents(p, "request")) = 1
            /\ Len(KindEvents(p, "sleep", MARKDOWN)) = 1
            /\ Len(outs) = 2
            /\ outs[2] = "NONE" =>
                   /\ "message" \in DOMAIN result[p][1]
                   /\ "error" \notin DOMAIN result[p][1]
                   /\ result[p][1].status = "none"

(***************************************************************************)
(* C2 amended: for a kind whose first probe returned NONE, the generation  *)
(* requester is called once for each probe of the kind that returned NONE  *)
(* (before the wait, and again when the second probe is still NONE); the   *)
(* kind is waited for at most once and probed at most twice, and exactly   *)
(* once and twice when the invocation returned a mapping; when the second  *)
(* probe was NONE too and the kind's processing returned, its result is a  *)
(* `message` (no `error`) with status "none".                              *)
(***************************************************************************)
C2_RequestPerNoneProbe ==
    \A p \in Procs : \A t \in RepresentationType :
        LET outs == ProbeOuts(p, t)
            nones == Cardinality({i \in 1..Len(outs) : outs[i] = "NONE"})
            requests == Len(KindEvents(p, "request", t))
            asking == pc[p] = "request" /\ kind[p] = t
        IN  (outs # <<>> /\ outs[1] = "NONE") =>
                /\ requests = (IF asking THEN nones - 1 ELSE nones)
                /\ Len(KindEvents(p, "sleep", t)) <= 1
                /\ Len(outs) <= 2
                /\ pc[p] = "done" =>
                       /\ Len(KindEvents(p, "sleep", t)) = 1
                       /\ Len(outs) = 2
                /\ (outs = <<"NONE", "NONE">> /\ ~asking /\ pc[p] # "raised") =>
                       LET done == AttemptsOf(p, t)
                       IN  /\ Len(done) = 1
                           /\ "message" \in DOMAIN done[1].result
                           /\ "error" \notin DOMAIN done[1].result
                           /\ done[1].result.status = "none"
                           /\ requests = 2

\* an invocation that returned the message after two NONE probes and two requests
C2_Witness ==
    \E p \in Procs :
        /\ pc[p] = "done"
        /\ ProbeOuts(p, MARKDOWN) = <<"NONE", "NONE">>
        /\ Len(OpEvents(p, "request")) = 2
        /\ "message" \in DOMAIN result[p][1]

(***************************************************************************)
(* C3: when the first probe (markdown) returned SUCCESS, the generation    *)
(* requester is never invoked in that invocation and the downloader is     *)
(* invoked at most once, exactly once by the time the invocation ended.    *)
(***************************************************************************)
C3_SuccessDownloadsOnce ==
    \A p \in Procs :
        LET outs == ProbeOuts(p, MARKDOWN) IN
        (outs # <<>> /\ outs[1] = "SUCCESS") =>
            /\ Len(OpEvents(p, "request")) = 0
            /\ Len(OpEvents(p, "download")) <= 1
            /\ Ended(p) => Len(OpEvents(p, "download")) = 1

\* an invocation that returned the content after a first SUCCESS
C3_Witness ==
    \E p \in Procs :
        /\ pc[p] = "done"
        /\ ProbeOuts(p, MARKDOWN) = <<"SUCCESS">>
        /\ Len(OpEvents(p, "download")) = 1
        /\ "content" \in DOMAIN result[p][1]

(***************************************************************************)
(* C4: when the markdown attempt ended with status impossible, error or    *)
(* unknown, the extracted text is attempted next with the same policy of   *)
(* one retry, and what the invocation returns is the outcome of that       *)
(* attempt, never the markdown result: markdown IMPOSSIBLE then extracted  *)
(* text SUCCESS and a download that succeeds returns the content alone,    *)
(* and both kinds IMPOSSIBLE returns the extracted text's impossible error.*)
(***************************************************************************)
FallbackStatuses == {Some("impossible"), Some("error"), Some("unknown")}

C4_FallbackReturnsExtractedText ==
    \A p \in Procs :
        LET md == AttemptsOf(p, MARKDOWN)
            et == AttemptsOf(p, EXTRACTED_TEXT)
            outs == ProbeOuts(p, EXTRACTED_TEXT)
        IN  (md # <<>> /\ DictGet(md[1].result, "status") \in FallbackStatuses) =>
                /\ kind[p] = EXTRACTED_TEXT
                /\ Len(outs) <= 2
                /\ Ended(p) => outs # <<>>
                /\ pc[p] = "done" =>
                       /\ Last(OpEvents(p, "probe")).kind = EXTRACTED_TEXT
                       /\ (outs[1] \in {"NONE", "PENDING"}) => Len(outs) = 2
                       /\ IF Last(outs) = "BoxAPIError"
                          THEN et = <<>> /\ DOMAIN result[p][1] = {"error"}
                          ELSE Len(et) = 1 /\ result[p] = Some(et[1].result)
                       /\ result[p] # Some(md[1].result)
                /\ (pc[p] = "done" /\ ProbeOuts(p, MARKDOWN) = <<"IMPOSSIBLE">>) =>
                       /\ (outs = <<"SUCCESS">> /\ Last(calls[p]).out = "ok")
                              => DOMAIN result[p][1] = {"content"}
                       /\ outs = <<"IMPOSSIBLE">> =>
                              result[p] = Some(
                                  [error |-> "extracted_text representation is impossible for this file.",
                                   status |-> "impossible"])

\* markdown ended unknown and the content of the extracted text was returned
C4_Witness ==
    \E p \in Procs :
        /\ pc[p] = "done"
        /\ ProbeOuts(p, MARKDOWN) = <<"UNKNOWN">>
        /\ ProbeOuts(p, EXTRACTED_TEXT) = <<"PENDING", "SUCCESS">>
        /\ "content" \in DOMAIN result[p][1]

(***************************************************************************)
(* C5: when the last markdown probe returned PENDING, NONE or SUCCESS, the *)
(* extracted text is never probed in that invocation, and what the         *)
(* invocation returns is the result of the markdown attempt as it is.      *)
(***************************************************************************)
C5_NoFallbackWhenPending ==
    \A p \in Procs :
        LET outs == ProbeOuts(p, MARKDOWN)
            md == AttemptsOf(p, MARKDOWN)
        IN  (outs # <<>> /\ Last(outs) \in {"PENDING", "NONE", "SUCCESS"}) =>
                /\ KindEvents(p, "probe", EXTRACTED_TEXT) = <<>>
                /\ kind[p] = MARKDOWN
                /\ md # <<>> =>
                       /\ pc[p] = "done"
                       /\ attempts[p] = md /\ Len(md) = 1
                       /\ result[p] = Some(md[1].result)
                       /\ Last(outs) = "PENDING" =>
                              /\ Len(outs) = 2
                              /\ DOMAIN result[p][1] = {"message", "status"}
                              /\ result[p][1].status = "pending"
                       /\ Last(outs) = "NONE" =>
                              /\ Len(outs) = 2
                              /\ DOMAIN result[p][1] = {"message", "status"}
                              /\ result[p][1].status = "none"

\* markdown was pending twice and its message was returned
C5_Witness ==
    \E p \in Procs :
        /\ pc[p] = "done"
        /\ ProbeOuts(p, MARKDOWN) = <<"PENDING", "PENDING">>
        /\ "message" \in DOMAIN result[p][1]

(***************************************************************************)
(* C6: every mapping an invocation returned has exactly one of the keys    *)
(* content, message and error, and no key besides these and status.        *)
(***************************************************************************)
PrimaryKeys == {"content", "message", "error"}

C6_ExactlyOnePrimaryKey ==
    \A p \in Procs :
        result[p] # None =>
            /\ Cardinality(DOMAIN result[p][1] \cap PrimaryKeys) = 1
            /\ DOMAIN result[p][1] \subseteq PrimaryKeys \cup {"status"}

\* a returned mapping with a status, after the default (unknown) branch
C6_Witness ==
    \E p \in Procs :
        /\ pc[p] = "done"
        /\ ProbeOuts(p, EXTRACTED_TEXT) # <<>>
        /\ Last(ProbeOuts(p, EXTRACTED_TEXT)) = "UNKNOWN"
        /\ DOMAIN result[p][1] = {"error", "status"}

(***************************************************************************)
(* C7: in every mapping returned, content is there only if the last probe  *)
(* returned SUCCESS and the download GET succeeded; error is there only if *)
(* the last probe raised the service's error, or the download failed (HTTP *)
(* error, or no template), or the last probe, of the kind attempted last,  *)
(* returned ERROR, IMPOSSIBLE or UNKNOWN; and a last status of NONE or     *)
(* PENDING is returned under message, never under error.                   *)
(***************************************************************************)
C7_KeysFollowLastProbe ==
    \A p \in Procs :
        result[p] # None =>
            LET r == result[p][1]
                probe == Last(OpEvents(p, "probe"))
                last == Last(calls[p])
            IN  /\ "content" \in DOMAIN r =>
                       /\ probe.out = "SUCCESS"
                       /\ last.op = "get" /\ last.out = "ok"
                       /\ calls[p][Len(calls[p]) - 1].op = "download"
                /\ "error" \in DOMAIN r =>
                       \/ last = probe /\ probe.out = "BoxAPIError"
                       \/ /\ probe.out = "SUCCESS"
                          /\ \/ last.op = "get" /\ last.out = "HTTPError"
                             \/ last.op = "download" /\ last.url = None
                       \/ /\ last = probe /\ probe.kind = kind[p]
                          /\ probe.out \in {"ERROR", "IMPOSSIBLE", "UNKNOWN"}
                /\ probe.out \in {"NONE", "PENDING"} =>
                       /\ "message" \in DOMAIN r
                       /\ "error" \notin DOMAIN r

\* a still pending extracted text, returned as a message
C7_Witness ==
    \E p \in Procs :
        /\ pc[p] = "done"
        /\ ProbeOuts(p, EXTRACTED_TEXT) = <<"NONE", "PENDING">>
        /\ DOMAIN result[p][1] = {"message", "status"}

(***************************************************************************)
(* C8 as stated: no exception ever leaves box_file_text_extract, whatever  *)
(* the probes, the generation GET and the download GET answer.             *)
(***************************************************************************)
C8_NoExceptionEscapes ==
    \A p \in Procs : pc[p] # "raised" /\ exc[p] = None

C10_Original ==
    \A p \in Procs : \A i \in 1..Len(calls[p]) :
        (calls[p][i].op = "download" /\ calls[p][i].url = Some(FixtureTemplate)) =>
            /\ i < Len(calls[p])
            /\ calls[p][i + 1].op = "get"
            /\ calls[p][i + 1].url = Some(FixtureResolved)

(***************************************************************************)
(* C10 amended: the downloader removes the characters of the placeholder   *)
(* {+asset_path} and nothing else, and issues its GET against the outcome: *)
(* "https://service/rep/{+asset_path}/content" is requested as             *)
(* "https://service/rep//content", both slashes around the placeholder     *)
(* kept, and a template without the placeholder is requested unchanged.    *)
(***************************************************************************)
C10_PlaceholderRemoved ==
    \A p \in Procs : \A i \in 1..Len(calls[p]) :
        (calls[p][i].op = "download" /\ calls[p][i].url # None) =>
            /\ i < Len(calls[p])
            /\ calls[p][i + 1].op = "get"
            /\ calls[p][i].url = Some(FixtureTemplate)
                   => calls[p][i + 1].url = Some(FixtureDoubleSlash)
            /\ calls[p][i].url = Some(PlainTemplate)
                   => calls[p][i + 1].url = Some(PlainTemplate)

\* the fixture template was downloaded and its content returned
C10_Witness ==
    \E p \in Procs :
        /\ pc[p] = "done"
        /\ "content" \in DOMAIN result[p][1]
        /\ Last(OpEvents(p, "download")).url = Some(FixtureTemplate)
        /\ Last(calls[p]).url = Some(FixtureDoubleSlash)

(***************************************************************************)
(* C11: a downloader called without a content URL template returns         *)
(* {"error": "No URL provided for representation download."}, a generation *)
(* requester called without an info URL returns {"error": "No URL provided *)
(* for representation generation."}, and neither issues a GET.             *)
(***************************************************************************)
C11_MissingUrlNoGet ==
    \A p \in Procs : \A i \in 1..Len(calls[p]) :
        LET e == calls[p][i] IN
        (e.op \in {"request", "download"} /\ e.url = None) =>
            /\ e.out = "error"
            /\ e.msg = (IF e.op = "download"
                        THEN "No URL provided for representation download."
                        ELSE "No URL provided for representation generation.")
            /\ i < Len(calls[p]) => calls[p][i + 1].op # "get"
            /\ e.op = "download" =>
                   Last(AttemptsOf(p, e.kind)).result =
                       [error |-> "No URL provided for representation download."]

\* a requester and then a downloader were called without their URLs
C11_Witness ==
    \E p \in Procs :
        /\ pc[p] = "done"
        /\ Len(calls[p]) = 5
        /\ calls[p][2].op = "request" /\ calls[p][2].url = None
        /\ calls[p][5].op = "download" /\ calls[p][5].url = None
        /\ OpEvents(p, "get") = <<>>

(***************************************************************************)
(* C12: for each kind, a probe of a file whose metadata carries no         *)
(* representation entry returns status IMPOSSIBLE with no info URL and no  *)
(* content URL, and does not raise.                                        *)
(***************************************************************************)
C12_NoEntriesIsImpossible ==
    \A p \in Procs :
        /\ \A i \in 1..Len(calls[p]) :
               LET e == calls[p][i] IN
               (e.op = "probe" /\ e.seen # None /\ e.seen[1].entries = 0)
                   => e.out = "IMPOSSIBLE"
        /\ (calls[p] # <<>> /\ Last(calls[p]).op = "probe"
                /\ Last(calls[p]).seen # None /\ Last(calls[p]).seen[1].entries = 0) =>
               /\ exc[p] = None
               /\ rep[p] = [status |-> "IMPOSSIBLE", info_url |-> None,
                            content_url |-> None]

\* both kinds were probed on a file without entries
C12_Witness ==
    \E p \in Procs :
        /\ Len(calls[p]) = 2
        /\ \A i \in 1..2 : calls[p][i].seen # None /\ calls[p][i].seen[1].entries = 0
        /\ calls[p][1].kind = MARKDOWN /\ calls[p][2].kind = EXTRACTED_TEXT
        /\ pc[p] = "done"

(***************************************************************************)
(* C14: a probe of a kind that returned ERROR or IMPOSSIBLE, first probe   *)
(* or retry, ends the processing of the kind at once: it has returned an   *)
(* error mapping with status "error", "impossible" respectively, and no    *)
(* wait, generation request, download or probe of that kind follows.       *)
(***************************************************************************)
C14_ErrorAndImpossibleAreTerminal ==
    \A p \in Procs : \A i \in 1..Len(calls[p]) :
        LET e == calls[p][i]
            done == AttemptsOf(p, e.kind)
        IN  (e.op = "probe" /\ e.out \in {"ERROR", "IMPOSSIBLE"}) =>
                /\ \A j \in (i + 1)..Len(calls[p]) : calls[p][j].kind # e.kind
                /\ Len(done) = 1
                /\ DOMAIN done[1].result = {"error", "status"}
                /\ done[1].result.status =
                       (IF e.out = "ERROR" THEN "error" ELSE "impossible")

\* markdown failed on its retry, the extracted text was impossible at once
C14_Witness ==
    \E p \in Procs :
        /\ pc[p] = "done"
        /\ ProbeOuts(p, MARKDOWN) = <<"PENDING", "ERROR">>
        /\ ProbeOuts(p, EXTRACTED_TEXT) = <<"IMPOSSIBLE">>
        /\ result[p][1].status = "impossible"

(***************************************************************************)
(* C15 as stated: whenever the service reports a state string other than   *)
(* none, pending, success, error and impossible, the processing of the     *)
(* kind does not raise and returns the error mapping of the unknown status.*)
(***************************************************************************)
C15_UnknownStateIsReturned ==
    \A p \in Procs : \A i \in 1..Len(calls[p]) :
        LET e == calls[p][i]
            done == AttemptsOf(p, e.kind)
        IN  (e.op = "probe" /\ e.seen # None /\ e.seen[1].state # None
                /\ e.seen[1].state[1] \notin
                       {"none", "pending", "success", "error", "impossible"}) =>
                /\ e.out = "UNKNOWN"
                /\ exc[p] = None
                /\ Len(done) = 1
                /\ done[1].result =
                       [error |-> "Unknown status for " \o RepresentationTypeValue(e.kind)
                                  \o " representation.",
                        status |-> "unknown"]

(***************************************************************************)
(* C16: a downloader that has a URL issues exactly one GET; when that GET  *)
(* fails with an HTTP error the downloader returns {"error": reason} with  *)
(* the reason phrase of the response, and does not request again.          *)
(***************************************************************************)
C16_DownloadErrorNoRetry ==
    \A p \in Procs : \A i \in 1..Len(calls[p]) :
        LET e == calls[p][i] IN
        (e.op = "download" /\ e.url # None) =>
            /\ i < Len(calls[p])
            /\ calls[p][i + 1].op = "get"
            /\ i + 1 < Len(calls[p]) => calls[p][i + 2].op # "get"
            /\ calls[p][i + 1].out = "HTTPError" =>
                   /\ e.out = "error"
                   /\ e.msg = calls[p][i + 1].msg
                   /\ Last(AttemptsOf(p, e.kind)).result = [error |-> calls[p][i + 1].msg]

\* a download of markdown failed with Forbidden, which was returned
C16_Witness ==
    \E p \in Procs :
        /\ pc[p] = "done"
        /\ Last(calls[p]).op = "get" /\ Last(calls[p]).out = "HTTPError"
        /\ Len(OpEvents(p, "get")) = 1
        /\ result[p] = Some([error |-> "Forbidden"])

(***************************************************************************)
(* C17: each wait of a kind lasts 5 seconds, is the only wait of that      *)
(* kind, comes after exactly one probe of the kind, which returned NONE or *)
(* PENDING, and is followed by nothing but the second probe of the kind;   *)
(* after PENDING the wait follows the probe at once, after NONE the        *)
(* generation request (and its GET) comes between the probe and the wait.  *)
(***************************************************************************)
C17_OneFixedWaitBeforeRetry ==
    \A p \in Procs : \A i \in 1..Len(calls[p]) :
        LET e == calls[p][i]
            before == {j \in 1..(i - 1) :
                          calls[p][j].op = "probe" /\ calls[p][j].kind = e.kind}
        IN  e.op = "sleep" =>
                /\ e.n = 5
                /\ Len(KindEvents(p, "sleep", e.kind)) = 1
                /\ Cardinality(before) = 1
                /\ \A j \in before :
                       /\ calls[p][j].out \in {"NONE", "PENDING"}
                       /\ calls[p][j].out = "PENDING" => i = j + 1
                       /\ calls[p][j].out = "NONE" =>
                              /\ calls[p][j + 1].op = "request"
                              /\ \/ i = j + 2
                                 \/ i = j + 3 /\ calls[p][j + 2].op = "get"
                /\ i < Len(calls[p]) =>
                       /\ calls[p][i + 1].op = "probe"
                       /\ calls[p][i + 1].kind = e.kind

\* a wait after NONE and its GET for markdown, a wait after PENDING for the text
C17_Witness ==
    \E p \in Procs :
        /\ Len(calls[p]) >= 8
        /\ calls[p][1].out = "NONE" /\ calls[p][3].op = "get" /\ calls[p][4].op = "sleep"
        /\ calls[p][5].out = "ERROR"
        /\ calls[p][6].out = "PENDING" /\ calls[p][7].op = "sleep"
        /\ calls[p][8].op = "probe"

(***************************************************************************)
(* C13: with the invocations of box_file_text_extract interleaved in any   *)
(* order on one file, every step changes the state of one invocation only, *)
(* and every invocation by itself probes each kind at most twice, retries  *)
(* exactly when its own first probe returned NONE or PENDING, returns a    *)
(* mapping with one primary key that follows from the last responses it    *)
(* observed itself, and issues its own GET for every generation request    *)
(* that has an info URL, whatever the other invocations requested.         *)
(***************************************************************************)
OwnResult(p) ==
    LET lp == Last(OpEvents(p, "probe"))
        last == Last(calls[p])
    IN  CASE lp.out = "BoxAPIError" -> BoxApiErrorResult(lp.msg)
          [] lp.out = "NONE" -> GenerationRequestedResult(lp.kind)
          [] lp.out = "PENDING" -> StillPendingResult(lp.kind)
          [] lp.out = "SUCCESS" /\ last.op = "download" -> NoDownloadUrlResult
          [] lp.out = "SUCCESS" /\ last.op = "get" /\ last.out = "HTTPError" ->
                 [error |-> last.msg]
          [] lp.out = "SUCCESS" /\ last.op = "get" /\ last.out = "ok" ->
                 [content |-> result[p][1].content]
          [] OTHER -> TerminalResult(lp.kind, lp.out)

OwnState(p) ==
    <<pc[p], kind[p], is_recursive[p], rep[p], result[p], exc[p], calls[p], attempts[p]>>

OneInvocationSteps ==
    \E p \in Procs : \A q \in Procs \ {p} : OwnState(q)' = OwnState(q)

InvocationByItself(p) ==
    /\ \A t \in RepresentationType :
           LET outs == ProbeOuts(p, t) IN
           /\ Len(outs) <= 2
           /\ Len(outs) = 2 => outs[1] \in {"NONE", "PENDING"}
           /\ (pc[p] = "done" /\ outs # <<>> /\ outs[1] \in {"NONE", "PENDING"})
                  => Len(outs) = 2
    /\ pc[p] = "done" =>
           /\ Cardinality(DOMAIN result[p][1] \cap PrimaryKeys) = 1
           /\ result[p][1] = OwnResult(p)
    /\ \A i \in 1..Len(calls[p]) :
           (calls[p][i].op = "request" /\ calls[p][i].url # None) =>
               /\ i < Len(calls[p])
               /\ calls[p][i + 1].op = "get"
               /\ calls[p][i + 1].url = calls[p][i].url

C13_InvocationsAreIndependent ==
    /\ [](\A p \in Procs : InvocationByItself(p))
    /\ [][OneInvocationSteps]_vars

\* two invocations under way at once both observed NONE and both issued the
\* GET of the same info URL; one of them has retried since
C13_Witness ==
    /\ \A p \in Procs :
           /\ Len(calls[p]) >= 3
           /\ calls[p][1].out = "NONE"
           /\ calls[p][3].op = "get" /\ calls[p][3].url = Some(InfoUrl)
    /\ pc["i1"] = "sleep"
    /\ pc["i2"] = "done" /\ ProbeOuts("i2", MARKDOWN) = <<"NONE", "PENDING">>

(***************************************************************************)
(* C18: when box_folder_items_list has returned and every get_folder_items *)
(* call succeeded, the mapping returned is either folder_items alone with  *)
(* a list that is not empty, or message alone with the text "No items      *)
(* found in folder."; it is the message exactly when no page of the folder *)
(* itself held an entry, and otherwise the list holds one item for every   *)
(* entry of those pages.                                                   *)
(***************************************************************************)
RECURSIVE EntriesCollected(_)
\* the number of entries in the pages of the folder itself among calls cs
EntriesCollected(cs) ==
    IF cs = <<>> THEN 0
    ELSE (IF Head(cs).depth = 1 THEN Len(Head(cs).resp.entries) ELSE 0)
         + EntriesCollected(Tail(cs))

EveryListingSucceeded ==
    \A i \in 1..Len(folder_calls) : folder_calls[i].resp.err = None

C18_ItemsOrMessage ==
    (folder_pc = "done" /\ EveryListingSucceeded) =>
        LET ret == folder_return[1] IN
        /\ \/ /\ DOMAIN ret = {"folder_items"}
              /\ ret.folder_items # <<>>
              /\ Len(ret.folder_items) = EntriesCollected(folder_calls)
           \/ ret = [message |-> "No items found in folder."]
        /\ "message" \in DOMAIN ret <=> EntriesCollected(folder_calls) = 0

\* a recursive listing returned its items; the nested listing of a subfolder
\* found nothing, so that the subfolder has no `items`
C18_Witness ==
    /\ folder_pc = "done"
    /\ folder_is_recursive
    /\ EveryListingSucceeded
    /\ Len(folder_calls) = 2
    /\ folder_calls[2].depth = 2 /\ folder_calls[2].resp.entries = <<>>
    /\ DOMAIN folder_return[1] = {"folder_items"}
    /\ \E i \in 1..Len(folder_return[1].folder_items) :
           LET item == folder_return[1].folder_items[i] IN
           item.type = "folder" /\ "items" \notin DOMAIN item

(***************************************************************************)
(* C19 as stated: box_hub_list called with a direction that, upper-cased,  *)
(* is no valid sort direction has returned an error mapping whose text     *)
(* holds "Invalid direction", and has made no request to the hubs API.     *)
(***************************************************************************)
C19_Original ==
    (hub_fn = "box_hub_list" /\ hub_args.direction # None
        /\ Upper(hub_args.direction[1]) \notin ValidDirections) =>
        /\ hub_pc = "done"
        /\ hub_return =
               Some([error |-> InvalidDirectionMessage(Upper(hub_args.direction[1]))])
        /\ hub_calls = <<>>

(***************************************************************************)
(* C19 amended: box_hub_list called with a direction that is not empty     *)
(* and, upper-cased, is no valid sort direction has returned the error     *)
(* mapping "Invalid direction: <DIRECTION>. Valid directions are: ['ASC',  *)
(* 'DESC']" and has made no request; with an empty direction it goes on as *)
(* without a direction: no error of the direction is returned and every    *)
(* request it makes carries no sort direction.                             *)
(***************************************************************************)
C19_InvalidDirectionIsReturned ==
    (hub_fn = "box_hub_list" /\ hub_args.direction # None) =>
        LET direction == hub_args.direction[1] IN
        /\ (direction # <<>> /\ Upper(direction) \notin ValidDirections) =>
               /\ hub_pc = "done"
               /\ hub_return =
                      Some([error |-> InvalidDirectionMessage(Upper(direction))])
               /\ hub_calls = <<>>
        /\ direction = <<>> =>
               /\ hub_pc = "done" => hub_calls # <<>>
               /\ \A i \in 1..Len(hub_calls) : hub_calls[i].direction = None

\* "up" was refused, with the text that names it in upper case
C19_Witness ==
    /\ hub_pc = "done"
    /\ hub_fn = "box_hub_list"
    /\ hub_args.direction = Some(<<"u", "p">>)
    /\ hub_return =
           Some([error |-> "Invalid direction: UP. Valid directions are: ['ASC', 'DESC']"])
    /\ hub_calls = <<>>

(***************************************************************************)
(* C20: box_hub_item_add and box_hub_item_remove called with an item_type  *)
(* that, lower-cased, is none of file, folder and web_link raise           *)
(* ValueError("Invalid item type: <item_type as given>"), make no request  *)
(* to the hub-items API and leave the items of the hub as they were; with  *)
(* one of the three types in any case they do not raise.                   *)
(***************************************************************************)
HubItemInvocation ==
    hub_fn \in {"box_hub_item_add", "box_hub_item_remove"}

InvalidItemType ==
    Text(Lower(hub_args.item_type)) \notin {"file", "folder", "web_link"}

C20_InvalidItemTypeRaises ==
    /\ []((HubItemInvocation /\ InvalidItemType) =>
              /\ hub_pc = "raised"
              /\ hub_exc = Some([type |-> "ValueError",
                                 message |-> "Invalid item type: "
                                             \o Text(hub_args.item_type)])
              /\ hub_return = None
              /\ hub_calls = <<>>)
    /\ []((HubItemInvocation /\ ~InvalidItemType) => hub_pc # "raised")
    /\ [][(HubItemInvocation /\ InvalidItemType)' => hub_items' = hub_items]_vars

\* a removal with the type "Invalid" raised, and the hub still holds its item
C20_Witness ==
    /\ hub_pc = "raised"
    /\ hub_fn = "box_hub_item_remove"
    /\ hub_exc = Some([type |-> "ValueError", message |-> "Invalid item type: Invalid"])
    /\ hub_items = {[type |-> "file", id |-> "1"]}
    /\ hub_calls = <<>>

(***************************************************************************)
(* C22: a probe that raised the service's error is the last call of its    *)
(* invocation: no probe, wait, generation request, GET or download follows *)
(* it, the extracted text is not tried after a markdown probe that raised, *)
(* and the invocation has returned an error mapping.                       *)
(***************************************************************************)
C22_NothingAfterServiceError ==
    \A p \in Procs : \A i \in 1..Len(calls[p]) :
        (calls[p][i].op = "probe" /\ calls[p][i].out = "BoxAPIError") =>
            /\ i = Len(calls[p])
            /\ pc[p] = "done"
            /\ DOMAIN result[p][1] = {"error"}
            /\ calls[p][i].kind = MARKDOWN => KindEvents(p, "probe", EXTRACTED_TEXT) = <<>>

\* the retry of the markdown probe raised, after a generation GET and a wait
C22_Witness ==
    \E p \in Procs :
        /\ pc[p] = "done"
        /\ Len(calls[p]) = 5
        /\ calls[p][1].out = "NONE" /\ calls[p][3].op = "get" /\ calls[p][4].op = "sleep"
        /\ calls[p][5].kind = MARKDOWN /\ calls[p][5].out = "BoxAPIError"

(***************************************************************************)
(* C23: when the last markdown probe returned SUCCESS and the download did *)
(* not give the content (the GET failed with an HTTP error, or there was   *)
(* no content URL template), box_file_text_extract has returned the        *)
(* downloader's mapping as it is, with the error key alone, and the        *)
(* extracted text was not tried.                                           *)
(***************************************************************************)
C23_DownloadErrorIsFinal ==
    \A p \in Procs : \A i \in 1..Len(calls[p]) :
        LET e == calls[p][i] IN
        (e.op = "download" /\ e.kind = MARKDOWN /\ e.out = "error") =>
            /\ calls[p][i - 1].op = "probe" /\ calls[p][i - 1].out = "SUCCESS"
            /\ pc[p] = "done"
            /\ result[p] = Some([error |-> e.msg])
            /\ "status" \notin DOMAIN result[p][1]
            /\ \A j \in 1..Len(calls[p]) : calls[p][j].kind = MARKDOWN

\* markdown was there on the retry but without a template: the downloader's
\* error was returned
C23_Witness ==
    \E p \in Procs :
        /\ pc[p] = "done"
        /\ ProbeOuts(p, MARKDOWN) = <<"PENDING", "SUCCESS">>
        /\ Last(calls[p]).op = "download" /\ Last(calls[p]).url = None
        /\ result[p] = Some([error |-> "No URL provided for representation download."])

(***************************************************************************)
(* C24: for a kind probed twice, the first probe returned NONE or PENDING  *)
(* and there was one wait; a second SUCCESS is downloaded, and the content *)
(* is what the kind returns when the GET gave decodable bytes; a second    *)
(* ERROR, IMPOSSIBLE or UNKNOWN returns that error with its status, and    *)
(* for markdown the extracted text is tried next; a second NONE after a    *)
(* first PENDING makes the one generation request of the kind and, unless  *)
(* its GET raises, returns the "generation requested" message with status  *)
(* none; a second NONE or PENDING is not waited on.                        *)
(***************************************************************************)
C24_RetryHandledLikeFirstProbe ==
    \A p \in Procs : \A t \in RepresentationType :
        LET outs == ProbeOuts(p, t)
            done == AttemptsOf(p, t)
            downloads == KindEvents(p, "download", t)
            gets == KindEvents(p, "get", t)
        IN  Len(outs) = 2 =>
                /\ outs[1] \in {"NONE", "PENDING"}
                /\ Len(KindEvents(p, "sleep", t)) = 1
                /\ (outs[2] = "SUCCESS" /\ pc[p] # "download") =>
                       /\ Len(downloads) = 1
                       /\ (downloads[1].url # None /\ Last(gets).out = "ok"
                               /\ Len(done) = 1)
                              => DOMAIN done[1].result = {"content"}
                /\ outs[2] \in {"ERROR", "IMPOSSIBLE", "UNKNOWN"} =>
                       /\ Len(done) = 1
                       /\ DOMAIN done[1].result = {"error", "status"}
                       /\ done[1].result.status = StatusValue(outs[2])
                       /\ downloads = <<>>
                       /\ t = MARKDOWN =>
                              \/ pc[p] = "probe" /\ kind[p] = EXTRACTED_TEXT
                              \/ KindEvents(p, "probe", EXTRACTED_TEXT) # <<>>
                /\ (outs[1] = "PENDING" /\ outs[2] = "NONE") =>
                       /\ pc[p] # "request" => Len(KindEvents(p, "request", t)) = 1
                       /\ pc[p] = "done" =>
                              /\ Len(done) = 1
                              /\ done[1].result =
                                     [message |-> RepresentationTypeValue(t)
                                                  \o " representation generation requested.",
                                      status |-> "none"]
                /\ outs[2] = "PENDING" => pc[p] # "sleep"

\* markdown: PENDING then ERROR; extracted text: NONE then SUCCESS, downloaded
C24_Witness ==
    \E p \in Procs :
        /\ pc[p] = "done"
        /\ ProbeOuts(p, MARKDOWN) = <<"PENDING", "ERROR">>
        /\ ProbeOuts(p, EXTRACTED_TEXT) = <<"NONE", "SUCCESS">>
        /\ DOMAIN result[p][1] = {"content"}

(***************************************************************************)
(* C27: in every invocation at most one GET of a download and at most      *)
(* three GETs of generation requests are issued, and a download, with its  *)
(* GET, is the last call of the invocation.                                *)
(***************************************************************************)
GetsAfter(p, op) ==
    {i \in 2..Len(calls[p]) : calls[p][i].op = "get" /\ calls[p][i - 1].op = op}

C27_BoundedGets ==
    \A p \in Procs :
        /\ Cardinality(GetsAfter(p, "download")) <= 1
        /\ Cardinality(GetsAfter(p, "request")) <= 3
        /\ Cardinality(GetsAfter(p, "download")) + Cardinality(GetsAfter(p, "request"))
               = Len(OpEvents(p, "get"))
        /\ \A i \in 1..Len(calls[p]) :
               calls[p][i].op = "download" =>
                   /\ Ended(p)
                   /\ \A j \in (i + 1)..Len(calls[p]) :
                          j = i + 1 /\ calls[p][j].op = "get"

\* three generation GETs: markdown NONE then ERROR, extracted text NONE twice
C27_Witness ==
    \E p \in Procs :
        /\ pc[p] = "done"
        /\ Cardinality(GetsAfter(p, "request")) = 3
        /\ ProbeOuts(p, MARKDOWN) = <<"NONE", "ERROR">>

(***************************************************************************)
(* C28 as stated: whenever an invocation has returned the message          *)
(* "<kind> representation generation requested." with status none, it has  *)
(* issued at least one generation GET, with the info URL a probe returned, *)
(* and no generation requester of the kind returned "No URL provided for   *)
(* representation generation.".                                            *)
(***************************************************************************)
C28_RequestedMeansGetIssued ==
    \A p \in Procs : \A t \in RepresentationType :
        (pc[p] = "done"
            /\ result[p] = Some([message |-> RepresentationTypeValue(t)
                                             \o " representation generation requested.",
                                 status |-> "none"])) =>
            /\ \E i \in GetsAfter(p, "request") :
                   calls[p][i].kind = t /\ calls[p][i].url = calls[p][i - 1].url
            /\ \A i \in 1..Len(calls[p]) :
                   (calls[p][i].op = "request" /\ calls[p][i].kind = t)
                       => calls[p][i].out # "error"

(***************************************************************************)
(* C29: in every invocation the markdown probes all come before the        *)
(* extracted-text probes, every probe sends the hint of the kind being     *)
(* processed ("[markdown]", "[extracted_text]"), and when the extracted    *)
(* text has been probed the markdown attempt had returned a mapping with   *)
(* status impossible, error or unknown.                                    *)
(***************************************************************************)
C29_MarkdownBeforeExtractedText ==
    \A p \in Procs :
        /\ \A i, j \in 1..Len(calls[p]) :
               (calls[p][i].op = "probe" /\ calls[p][j].op = "probe"
                    /\ calls[p][i].kind = MARKDOWN /\ calls[p][j].kind = EXTRACTED_TEXT)
                   => i < j
        /\ \A i \in 1..Len(calls[p]) :
               calls[p][i].op = "probe" =>
                   /\ calls[p][i].kind = kind[p] \/ kind[p] = EXTRACTED_TEXT
                   /\ calls[p][i].hint =
                          (IF calls[p][i].kind = MARKDOWN THEN "[markdown]"
                           ELSE "[extracted_text]")
        /\ (KindEvents(p, "probe", EXTRACTED_TEXT) # <<>> \/ kind[p] = EXTRACTED_TEXT) =>
               /\ Len(AttemptsOf(p, MARKDOWN)) = 1
               /\ AttemptsOf(p, MARKDOWN) = <<attempts[p][1]>>
               /\ "status" \in DOMAIN attempts[p][1].result
               /\ attempts[p][1].result.status \in {"impossible", "error", "unknown"}
               /\ KindEvents(p, "probe", MARKDOWN) # <<>>

\* markdown was probed twice and was impossible, then the text was probed
C29_Witness ==
    \E p \in Procs :
        /\ Len(calls[p]) = 4
        /\ ProbeOuts(p, MARKDOWN) = <<"PENDING", "IMPOSSIBLE">>
        /\ calls[p][4].op = "probe" /\ calls[p][4].hint = "[extracted_text]"
        /\ calls[p][4].out = "PENDING"

(***************************************************************************)
(* C26: when every probe, GET and wait returns or raises, an invocation of *)
(* box_file_text_extract that has been called ends in the end: it returns  *)
(* a mapping or an exception leaves it, whatever the service reports.      *)
(***************************************************************************)
C26_InvocationTerminates ==
    \A p \in SeqProcs : (pc[p] # "idle") ~> Ended(p)

\* the longest invocation has ended: two probes of markdown with a generation
\* request, two of the extracted text with two
C26_Witness ==
    \E p \in SeqProcs :
        /\ pc[p] = "done"
        /\ Len(calls[p]) = 12
        /\ result[p][1].status = "none"

(***************************************************************************)
(* C25 as stated: when box_folder_items_list has returned a listing and    *)
(* every call succeeded, the requests for the folder itself started with   *)
(* no marker, each later one passed the next_marker of the page before,    *)
(* the last page had no next_marker (a page without entries did not stop   *)
(* the listing), and the items returned are the entries of these pages in  *)
(* page order.                                                             *)
(***************************************************************************)
OwnPages ==
    LET Test(c) == c.depth = 1 IN SelectSeq(folder_calls, Test)

RECURSIVE EntryIds(_)
\* the ids of the entries of pages cs, in page order
EntryIds(cs) ==
    IF cs = <<>> THEN <<>>
    ELSE [i \in 1..Len(Head(cs).resp.entries) |-> Head(cs).resp.entries[i].id]
         \o EntryIds(Tail(cs))

ReturnedIds ==
    IF "folder_items" \in DOMAIN folder_return[1]
    THEN [i \in 1..Len(folder_return[1].folder_items) |->
              folder_return[1].folder_items[i].id]
    ELSE <<>>

C25_ListsEveryPage ==
    (folder_pc = "done" /\ EveryListingSucceeded) =>
        /\ OwnPages[1].marker = None
        /\ \A i \in 2..Len(OwnPages) : OwnPages[i].marker = OwnPages[i - 1].resp.next_marker
        /\ OwnPages[Len(OwnPages)].resp.next_marker = None
        /\ ReturnedIds = EntryIds(OwnPages)

(***************************************************************************)
(* C21: with the calls made one after another, every box_file_tag_add that *)
(* succeeded left the file with the tags it had when the call was made, in *)
(* the same order, followed by the new tag when it was not among them; a   *)
(* tag that was there already leaves the list as it was, without a         *)
(* duplicate.                                                              *)
(***************************************************************************)
\* the tags of the file when the invocation that made event i was called
TagsAtCall(i) ==
    LET c == CHOOSE j \in 1..i :
                 /\ tag_log[j].op = "call" /\ tag_log[j].p = tag_log[i].p
                 /\ \A k \in (j + 1)..i : tag_log[k].op # "call" \/ tag_log[k].p # tag_log[i].p
    IN  tag_log[c].file_tags

TagWrites ==
    LET Test(e) == e.op = "write" /\ e.ok IN SelectSeq(tag_log, Test)

C30_NoLostUpdate ==
    LET w == TagWrites
        n == Len(w)
    IN  (/\ n >= 2
         /\ w[n].p # w[n - 1].p
         /\ w[n].tag # w[n - 1].tag
         /\ "box_file_tag_add" \in {w[n].fn, w[n - 1].fn}
         /\ \A p \in TagProcs : tag_pc[p] = "done") =>
            \A i \in {n - 1, n} :
                IF w[i].fn = "box_file_tag_add"
                THEN w[i].tag \in Range(file_tags)
                ELSE w[i].tag \notin Range(file_tags)

====
